---- MODULE Spec2Model ----
(***************************************************************************)
(* Model of the query-routing core of AI-delegator:                        *)
(*   src/src/agents/delegating-agent.js  (DelegatingAgent, the LangGraph   *)
(*                                         state machine and processQuery) *)
(*   src/unnamed/part_000                (RAGAgent.query / directSearch)   *)
(*   src/unnamed/part_002                (ChartTool._call)                 *)
(*                                                                         *)
(* Representation of JavaScript values                                     *)
(*   - a string is a sequence of atoms; an atom is either one character    *)
(*     ("a", " ", "?") or one non-empty string literal of the source kept  *)
(*     as a block ("Decision: ").  Concatenation is \o, the empty string   *)
(*     is <<>>, and a string is falsy exactly when it is <<>>.             *)
(*   - null / unset is the record Null; objects are records.               *)
(*   - a collaborator call (completion service, vector store, Tool.invoke) *)
(*     is an input of the step that awaits it: a record saying whether the *)
(*     call raised or what it returned.                                    *)
(***************************************************************************)
EXTENDS Naturals, Sequences, FiniteSets, TLC

VARIABLES
    pc,             \* position of the run: "idle", a graph node, "END", "threw", "returned"
    userQuery,      \* channel userQuery
    messages,       \* channel messages
    decision,       \* channel decision
    chartResult,    \* channel chartResult
    ragResult,      \* channel ragResult
    finalResponse,  \* channel finalResponse
    response,       \* what processQuery returned to its caller (Null before it returns)
    outcome,        \* "none" while running, then "returned" or "raised"
    steps,          \* history: graph nodes executed so far, in order
    callLog,        \* history: collaborator and handler calls made so far, in order
    classifyOutcome,\* history: how the classification call ended (Null before it)
    ragOutcome,     \* history: what RAGAgent.query returned in this run (Null if not called)
    synthOutcome,   \* history: how the synthesis call ended (Null if not made)
    ragEnv,         \* history: what the collaborators answered during RAGAgent.query
    searchOutcome,  \* history: what directSearch returned in this run (Null if not called)
    chartEnv,       \* history: what executeChartTool was answered and the parameters it used
    directOutcome,  \* history: how the direct-reply call ended (Null if not made)
    runs,           \* two runs on one instance: per run its routing state and what it heard
    agent,          \* the fields of the DelegatingAgent instance the runs share
    delegatingAgent,\* the server's module variable: 0 while undefined, else the instance it holds
    instances,      \* history: how many DelegatingAgent instances the server has constructed
    store,          \* the Weaviate store: its class, its tenant and the objects inserted
    created,        \* history: how many classCreator calls the store has carried out
    requests        \* the HTTP requests received so far, each with its handler's position

\* the variables of the single run
soloVars == <<pc, userQuery, messages, decision, chartResult, ragResult,
              finalResponse, response, outcome, steps, callLog,
              classifyOutcome, ragOutcome, synthOutcome,
              ragEnv, searchOutcome, chartEnv, directOutcome>>

\* the variables of the HTTP server and of the store behind it
serverVars == <<delegatingAgent, instances, store, created, requests>>

vars == <<soloVars, runs, agent, serverVars>>

----------------------------------------------------------------------------
(* Bounds *)

\* longest result list a vector-store call returns in the model
MaxResults == 2

\* how many HTTP requests the server receives in a behaviour
MaxRequests == 3

----------------------------------------------------------------------------
(* JavaScript values *)

Null == [tag |-> "null"]

EmptyObject == [tag |-> "{}"]

Str(lit) == <<lit>>

Min(a, b) == IF a <= b THEN a ELSE b

Count(seq, x) == Cardinality({i \in 1..Len(seq) : seq[i] = x})

UpperLetters == <<"A","B","C","D","E","F","G","H","I","J","K","L","M",
                  "N","O","P","Q","R","S","T","U","V","W","X","Y","Z">>

LowerLetters == <<"a","b","c","d","e","f","g","h","i","j","k","l","m",
                  "n","o","p","q","r","s","t","u","v","w","x","y","z">>

Digits == {"0","1","2","3","4","5","6","7","8","9"}

Range(f) == {f[i] : i \in DOMAIN f}

\* \s of a JavaScript regular expression, and the characters trim() removes
Whitespace == {" ", "\t", "\n"}

\* \w of a JavaScript regular expression
WordChars == Range(UpperLetters) \cup Range(LowerLetters) \cup Digits \cup {"_"}

UpperSet == Range(UpperLetters)

ToLowerChar(c) ==
    IF c \in UpperSet
    THEN LowerLetters[CHOOSE i \in 1..26 : UpperLetters[i] = c]
    ELSE c

\* String.prototype.toLowerCase
ToLowerCase(s) == [i \in 1..Len(s) |-> ToLowerChar(s[i])]

RECURSIVE TrimStart(_)
TrimStart(s) ==
    IF s # <<>> /\ Head(s) \in Whitespace THEN TrimStart(Tail(s)) ELSE s

RECURSIVE TrimEnd(_)
TrimEnd(s) ==
    IF s # <<>> /\ s[Len(s)] \in Whitespace
    THEN TrimEnd(SubSeq(s, 1, Len(s) - 1))
    ELSE s

\* String.prototype.trim
Trim(s) == TrimEnd(TrimStart(s))

\* the characters [^\w\s] does not match
KeptChars == WordChars \cup Whitespace

\* s.replace(/[^\w\s]/g, ' ')
ReplacePunct(s) ==
    [i \in 1..Len(s) |-> IF s[i] \in KeptChars THEN s[i] ELSE " "]

\* s.split(' '): the pieces between single blanks, empty pieces included
RECURSIVE SplitAcc(_, _, _)
SplitAcc(s, cur, acc) ==
    IF s = <<>> THEN Append(acc, cur)
    ELSE IF Head(s) = " " THEN SplitAcc(Tail(s), <<>>, Append(acc, cur))
    ELSE SplitAcc(Tail(s), Append(cur, Head(s)), acc)

Split(s) == SplitAcc(s, <<>>, <<>>)

StopWords ==
    { <<"t","h","e">>, <<"a","n","d">>, <<"o","r">>, <<"b","u","t">>,
      <<"i","n">>, <<"o","n">>, <<"a","t">>, <<"t","o">>, <<"f","o","r">>,
      <<"o","f">>, <<"w","i","t","h">>, <<"b","y">> }

\* number of keywords kept by directSearch: .slice(0, 3)
MaxKeywords == 3

IsKeyword(word) == Len(word) > 2 /\ word \notin StopWords

\* the keyword list directSearch derives from the query
Keywords(query) ==
    LET kept == SelectSeq(Split(ReplacePunct(ToLowerCase(query))), IsKeyword)
    IN  SubSeq(kept, 1, Min(MaxKeywords, Len(kept)))

----------------------------------------------------------------------------
(* Inputs: what the collaborators may answer *)

Raise(msg) == [raised |-> TRUE, message |-> Str(msg)]

Return(v) == [raised |-> FALSE, value |-> v]

\* "What is the Capital of France?"
FranceQuery ==
    <<"W","h","a","t"," ","i","s"," ","t","h","e"," ","C","a","p","i",
      "t","a","l"," ","o","f"," ","F","r","a","n","c","e","?">>

\* "show<TAB>me all the new data now"
TabQuery ==
    <<"s","h","o","w","\t","m","e"," ","a","l","l"," ","t","h","e"," ",
      "n","e","w"," ","d","a","t","a"," ","n","o","w">>

\* the user queries:  "What is ML?"  and  "Hi!", and the two above
Queries ==
    { <<"W","h","a","t"," ","i","s"," ","M","L","?">>,
      <<"H","i","!">>,
      FranceQuery, TabQuery }

\* response.content of the classification call:
\* "chart", "rag", "direct", " Both\n", "no", ""
ClassificationTexts ==
    { <<"c","h","a","r","t">>, <<"r","a","g">>, <<"d","i","r","e","c","t">>,
      <<" ","B","o","t","h","\n">>, <<"n","o">>, <<>> }

\* response.content of the answer, synthesis and direct-reply calls
AnswerTexts == { <<"A">>, <<>> }

SynthesisTexts == { <<"S">>, <<>> }

DirectTexts == { <<"D">>, <<>> }

CompletionOutcomes(texts) ==
    {Raise("completion service error")} \cup {Return(t) : t \in texts}

FileIds == {"file1", "file2"}

RECURSIVE SeqsUpTo(_, _)
SeqsUpTo(S, n) ==
    IF n = 0 THEN {<<>>}
    ELSE LET shorter == SeqsUpTo(S, n - 1)
         IN  shorter \cup {Append(s, x) : s \in {t \in shorter : Len(t) = n - 1}, x \in S}

\* an entry of the QuestionAnswer class
Entry(f) == [fileId |-> f, question |-> Str("question"), answer |-> Str("answer")]

\* the entries a vector-store call returns
EntryLists == SeqsUpTo({Entry(f) : f \in FileIds}, MaxResults)

StoreOutcomes == {Raise("vector store error")} \cup {Return(e) : e \in EntryLists}

\* the shape of the object client.data.getter()...do() resolves to:
\*   "graphql"  {data: {Get: {QuestionAnswer: [...]}}}   read by part_000:121
\*   "data"     {data: [{properties: ...}, ...]}          read by part_000:146
\*   "objects"  {objects: [...]}                          neither
GetterShapes == {"graphql", "data", "objects"}

----------------------------------------------------------------------------
(* RAGAgent (src/unnamed/part_000) *)

\* faulty variant: the identifiers are listed last entry first
SourceIdsReversed(results) ==
    [i \in 1..Len(results) |-> results[Len(results) + 1 - i].fileId]

\* searchResults.results.map(r => r.fileId)
SourceIds(results) == [i \in 1..Len(results) |-> results[i].fileId]

SearchSuccess(items, log) == [success |-> TRUE, results |-> items, log |-> log]

\* the catch branch of directSearch: one more unrestricted fetch
FallbackFetch(shape, last, log) ==
    LET log2 == Append(log, "data.getter")
    IN  IF last.raised
        THEN [success |-> FALSE, error |-> last.message, log |-> log2]
        ELSE CASE shape = "data"    -> SearchSuccess(last.value, log2)
               [] shape = "objects" -> SearchSuccess(<<>>, log2)
               [] shape = "graphql" ->
                    \* allObjects.data is an object: results.map is not a function
                    [success |-> FALSE, error |-> Str("results.map is not a function"),
                     log |-> log2]

\* faulty variant: an empty similarity result is retried at the lower tiers
DirectSearchRetryOnEmpty(query, first, second, last, shape) ==
    LET log1 == <<"graphql.nearText">>
    IN  IF ~first.raised /\ first.value # <<>>
        THEN SearchSuccess(first.value, log1)
        ELSE IF Keywords(query) = <<>>
             THEN LET log2 == Append(log1, "data.getter")
                  IN  IF ~second.raised /\ shape = "graphql"
                      THEN SearchSuccess(second.value, log2)
                      ELSE FallbackFetch(shape, last, log2)
             ELSE LET log2 == Append(log1, "graphql.where")
                  IN  IF ~second.raised
                      THEN SearchSuccess(second.value, log2)
                      ELSE FallbackFetch(shape, last, log2)

\* directSearch(query, 3).  first: the answer of the similarity search;
\* second: the answer of the call made after it raised (the keyword search,
\* or the unrestricted fetch when there is no keyword); last: the answer of
\* the fetch of the catch branch.
DirectSearch(query, first, second, last, shape) ==
    LET log1 == <<"graphql.nearText">>
    IN  IF ~first.raised
        THEN SearchSuccess(first.value, log1)
        ELSE IF Keywords(query) = <<>>
             THEN LET log2 == Append(log1, "data.getter")
                  IN  IF ~second.raised /\ shape = "graphql"
                      THEN SearchSuccess(second.value, log2)
                      ELSE \* the fetch raised, or result.data.Get cannot be read
                           FallbackFetch(shape, last, log2)
             ELSE LET log2 == Append(log1, "graphql.where")
                  IN  IF ~second.raised
                      THEN SearchSuccess(second.value, log2)
                      ELSE FallbackFetch(shape, last, log2)

SoftMissText == Str("I could not find relevant information in the database.")

QueryErrorText == Str("I encountered an error while processing your query.")

\* faulty variant: only a failed search is a soft miss, an empty one is not
QueryNoEmptyCheck(q, env) ==
    LET searchResults == DirectSearch(q, env.first, env.second, env.last, env.shape)
        log0 == <<"ragAgent.query">> \o searchResults.log
    IN  IF ~searchResults.success
        THEN [result |-> [success |-> FALSE, answer |-> SoftMissText, sources |-> <<>>],
              search |-> searchResults, log |-> log0]
        ELSE IF env.answer.raised
             THEN [result |-> [success |-> FALSE, error |-> env.answer.message,
                               answer |-> QueryErrorText],
                   search |-> searchResults, log |-> Append(log0, "completion.answer")]
             ELSE [result |-> [success |-> TRUE, answer |-> env.answer.value,
                               sources |-> SourceIds(searchResults.results)],
                   search |-> searchResults, log |-> Append(log0, "completion.answer")]

\* faulty variant: the catch block answers like a soft miss and drops the message
QueryCatchAsSoftMiss(q, env) ==
    LET searchResults == DirectSearch(q, env.first, env.second, env.last, env.shape)
        log0 == <<"ragAgent.query">> \o searchResults.log
    IN  IF ~searchResults.success \/ Len(searchResults.results) = 0
        THEN [result |-> [success |-> FALSE, answer |-> SoftMissText, sources |-> <<>>],
              search |-> searchResults, log |-> log0]
        ELSE IF env.answer.raised
             THEN [result |-> [success |-> FALSE, answer |-> SoftMissText, sources |-> <<>>],
                   search |-> searchResults, log |-> Append(log0, "completion.answer")]
             ELSE [result |-> [success |-> TRUE, answer |-> env.answer.value,
                               sources |-> SourceIds(searchResults.results)],
                   search |-> searchResults, log |-> Append(log0, "completion.answer")]

\* RAGAgent.query(userQuery).  env gathers the answers of the collaborators.
Query(q, env) ==
    LET searchResults == DirectSearch(q, env.first, env.second, env.last, env.shape)
        log0 == <<"ragAgent.query">> \o searchResults.log
    IN  IF ~searchResults.success \/ Len(searchResults.results) = 0
        THEN [result |-> [success |-> FALSE, answer |-> SoftMissText, sources |-> <<>>],
              search |-> searchResults, log |-> log0]
        ELSE IF env.answer.raised
             THEN [result |-> [success |-> FALSE, error |-> env.answer.message,
                               answer |-> QueryErrorText],
                   search |-> searchResults, log |-> Append(log0, "completion.answer")]
             ELSE [result |-> [success |-> TRUE, answer |-> env.answer.value,
                               sources |-> SourceIds(searchResults.results)],
                   search |-> searchResults, log |-> Append(log0, "completion.answer")]

\* a call that is not reached has no answer
NotAsked == [raised |-> TRUE, message |-> Str("not asked")]

\* the answers of the collaborators during one RAGAgent.query: the later
\* store calls are asked only after the similarity search raised
RagEnvs ==
    [first : {Return(e) : e \in EntryLists}, second : {NotAsked}, last : {NotAsked},
     shape : GetterShapes, answer : CompletionOutcomes(AnswerTexts)]
    \cup
    [first : {Raise("vector store error")}, second : StoreOutcomes, last : StoreOutcomes,
     shape : GetterShapes, answer : CompletionOutcomes(AnswerTexts)]

\* the answers RAGAgent.query actually received: r is what Query(q, env)
\* yields; the calls it did not reach are marked NotAsked
Consulted(env, r) ==
    [env EXCEPT !.last   = IF Len(r.search.log) = 3 THEN @ ELSE NotAsked,
                !.answer = IF Count(r.log, "completion.answer") = 1 THEN @ ELSE NotAsked]

----------------------------------------------------------------------------
(* ChartTool (src/unnamed/part_002) *)

Undefined == "undefined"

ChartKinds == {"line", "bar", "pie", "doughnut", "radar"}

\* what JSON.parse(response.content) yields in executeChartTool:
\*   [json |-> FALSE]                      the text is not JSON (SyntaxError)
\*   [json |-> TRUE, isNull |-> TRUE]      the text is the JSON value null
\*   [json |-> TRUE, isNull |-> FALSE, chartType, title, data]   a JSON object,
\*        a missing member being Undefined
ExtractionContents ==
    { [json |-> FALSE], [json |-> TRUE, isNull |-> TRUE] } \cup
    [json : {TRUE}, isNull : {FALSE},
     chartType : {"pie", "scatter", Undefined},
     title : {"Sales", Undefined},
     data : {Str("sales data")}]

\* the parameters executeChartTool substitutes when JSON.parse raises
DefaultChartParams(q) ==
    [json |-> TRUE, isNull |-> FALSE, chartType |-> "bar",
     title |-> "Data Visualization", data |-> q]

OrDefault(v, d) == IF v = Undefined THEN d ELSE v

\* ChartTool.generateMockData: which of the six dataset tables is used
GenerateMockData(chartType) ==
    IF chartType \in ChartKinds
    THEN IF chartType = "doughnut" THEN "pie" ELSE chartType
    ELSE "default"

\* ChartTool._call(JSON.stringify(params)) followed by JSON.parse of what it
\* returns.  callRaises: something inside the try block of _call raised.
ChartToolCall(params, callRaises) ==
    LET readable  == ~params.isNull
        \* reading a member of null raises inside the inner try of _call
        chartType == IF readable THEN OrDefault(params.chartType, "bar") ELSE "bar"
        title     == IF readable THEN OrDefault(params.title, "Chart") ELSE "Chart"
    IN  IF callRaises
        THEN [success |-> FALSE, error |-> Str("chart generation error"),
              message |-> Str("Failed to generate chart configuration")]
        ELSE [success |-> TRUE,
              chartConfig |-> [type |-> chartType,
                               data |-> GenerateMockData(chartType),
                               title |-> title,
                               scales |-> chartType \notin {"pie", "doughnut"}],
              message |-> <<"Generated ", chartType, " chart configuration for: ", title>>]

\* the behaviours of this.chartTool.invoke(...): the call returns what _call
\* computed, _call caught an exception of its own, or the call itself raised
InvokeOutcomes == {"returns", "callRaises", "raises"}

----------------------------------------------------------------------------
(* DelegatingAgent (src/src/agents/delegating-agent.js) *)

\* a string held by a channel whose default is null
JsString(chars) == [tag |-> "string", chars |-> chars]

ChartToken == <<"c","h","a","r","t">>

RagToken == <<"r","a","g">>

BothToken == <<"b","o","t","h">>

DirectToken == <<"d","i","r","e","c","t">>

Message(role, content) == [role |-> role, content |-> content]

\* faulty variant: a reducer that keeps only the entries the node added
MessagesReducerKeepNew(x, y) == SubSeq(y, Len(x) + 1, Len(y))

\* the reducer of the messages channel: (x, y) => x.concat(y)
MessagesReducer(x, y) == x \o y

\* every node returns messages: [...state.messages, m], which the channel
\* reducer then concatenates to the value it holds
AppendMessage(content) ==
    messages' = MessagesReducer(messages, Append(messages, Message("assistant", content)))

\* processQuery up to app.invoke: the initial state is written to the channels
ProcessQuery(q) ==
    /\ pc = "idle"
    /\ userQuery' = q
    /\ messages' = MessagesReducer(<<>>, <<Message("user", q)>>)
    /\ pc' = "analyze_query"
    /\ UNCHANGED <<decision, chartResult, ragResult, finalResponse, response,
                   outcome, steps, callLog, classifyOutcome, ragOutcome, synthOutcome,
                   ragEnv, searchOutcome, chartEnv, directOutcome,
                   runs, agent, serverVars>>

\* the decision analyzeQuery derives from response.content
Classify(content) == Trim(ToLowerCase(content))

\* faulty variant: the final else branch of routeDecision leads to the
\* retrieval node
RouteDecisionDefaultRag(d) ==
    IF d = JsString(ChartToken) THEN "chart_tool"
    ELSE IF d = JsString(RagToken) THEN "rag_agent"
    ELSE IF d = JsString(BothToken) THEN "chart_tool"
    ELSE "rag_agent"

\* faulty variant: routeDecision starts a both run at the retrieval node
RouteDecisionBothToRag(d) ==
    IF d = JsString(ChartToken) THEN "chart_tool"
    ELSE IF d = JsString(RagToken) THEN "rag_agent"
    ELSE IF d = JsString(BothToken) THEN "rag_agent"
    ELSE "direct_response"

\* faulty variant: the final else branch of routeDecision leads to the
\* chart node
RouteDecisionDefaultChart(d) ==
    IF d = JsString(ChartToken) THEN "chart_tool"
    ELSE IF d = JsString(RagToken) THEN "rag_agent"
    ELSE IF d = JsString(BothToken) THEN "chart_tool"
    ELSE "chart_tool"

\* the conditional edge after analyze_query
RouteDecision(d) ==
    IF d = JsString(ChartToken) THEN "chart_tool"
    ELSE IF d = JsString(RagToken) THEN "rag_agent"
    ELSE IF d = JsString(BothToken) THEN "chart_tool"
    ELSE "direct_response"

\* faulty variant: analyzeQuery with a try/catch that resolves a failed
\* classification call to the retrieval path
AnalyzeQueryCatches ==
    /\ pc = "analyze_query"
    /\ steps' = Append(steps, "analyze_query")
    /\ callLog' = Append(callLog, "completion.classify")
    /\ \E r \in CompletionOutcomes(ClassificationTexts) :
          /\ classifyOutcome' = r
          /\ IF r.raised
             THEN /\ decision' = JsString(RagToken)
                  /\ AppendMessage(<<"Decision: ">> \o RagToken)
                  /\ pc' = "rag_agent"
             ELSE /\ decision' = JsString(Classify(r.value))
                  /\ AppendMessage(<<"Decision: ">> \o Classify(r.value))
                  /\ pc' = RouteDecision(decision')
    /\ UNCHANGED <<userQuery, chartResult, ragResult, finalResponse, response, outcome,
                   ragOutcome, synthOutcome, ragEnv, searchOutcome, chartEnv,
                   directOutcome,
                   runs, agent, serverVars>>

\* node analyze_query, followed by the conditional edge; the node has no
\* try/catch, so a raising completion call makes app.invoke raise
AnalyzeQuery ==
    /\ pc = "analyze_query"
    /\ steps' = Append(steps, "analyze_query")
    /\ callLog' = Append(callLog, "completion.classify")
    /\ \E r \in CompletionOutcomes(ClassificationTexts) :
          /\ classifyOutcome' = r
          /\ IF r.raised
             THEN /\ pc' = "threw"
                  /\ UNCHANGED <<decision, messages>>
             ELSE /\ decision' = JsString(Classify(r.value))
                  /\ AppendMessage(<<"Decision: ">> \o Classify(r.value))
                  /\ pc' = RouteDecision(decision')
    /\ UNCHANGED <<userQuery, chartResult, ragResult, finalResponse, response, outcome,
                   ragOutcome, synthOutcome, ragEnv, searchOutcome, chartEnv,
                   directOutcome,
                   runs, agent, serverVars>>

\* faulty variant: executeChartTool without the try/catch around JSON.parse,
\* so that an unparsable extraction ends in the outer catch
ExecuteChartToolNoDefaults ==
    /\ pc = "chart_tool"
    /\ steps' = Append(steps, "chart_tool")
    /\ \E ext \in CompletionOutcomes(ExtractionContents), inv \in InvokeOutcomes :
          IF ext.raised \/ ~ext.value.json
          THEN /\ chartResult' = [success |-> FALSE,
                                  error |-> IF ext.raised THEN ext.message
                                            ELSE Str("Unexpected token")]
               /\ AppendMessage(Str("Chart tool failed"))
               /\ callLog' = Append(callLog, "completion.extract")
               /\ chartEnv' = [ext |-> ext, inv |-> "notCalled", params |-> Null]
          ELSE LET chartParams == ext.value
               IN  /\ callLog' = callLog \o <<"completion.extract", "chartTool.invoke">>
                   /\ chartEnv' = [ext |-> ext, inv |-> inv, params |-> chartParams]
                   /\ IF inv = "raises"
                      THEN /\ chartResult' = [success |-> FALSE,
                                              error |-> Str("chart tool error")]
                           /\ AppendMessage(Str("Chart tool failed"))
                      ELSE /\ chartResult' = ChartToolCall(chartParams, inv = "callRaises")
                           /\ AppendMessage(Str("Chart tool executed"))
    /\ pc' = "combine_results"
    /\ UNCHANGED <<userQuery, decision, ragResult, finalResponse, response, outcome,
                   classifyOutcome, ragOutcome, synthOutcome, ragEnv, searchOutcome,
                   directOutcome,
                   runs, agent, serverVars>>

\* faulty variant: executeChartTool with the extraction call inside the inner
\* try, so that a raising extraction call is replaced by the defaults as well
ExecuteChartToolAbsorbsRaise ==
    /\ pc = "chart_tool"
    /\ steps' = Append(steps, "chart_tool")
    /\ \E ext \in CompletionOutcomes(ExtractionContents), inv \in InvokeOutcomes :
          LET chartParams == IF ~ext.raised /\ ext.value.json THEN ext.value
                             ELSE DefaultChartParams(userQuery)
          IN  /\ callLog' = callLog \o <<"completion.extract", "chartTool.invoke">>
              /\ chartEnv' = [ext |-> ext, inv |-> inv, params |-> chartParams]
              /\ IF inv = "raises"
                 THEN /\ chartResult' = [success |-> FALSE,
                                         error |-> Str("chart tool error")]
                      /\ AppendMessage(Str("Chart tool failed"))
                 ELSE /\ chartResult' = ChartToolCall(chartParams, inv = "callRaises")
                      /\ AppendMessage(Str("Chart tool executed"))
    /\ pc' = "combine_results"
    /\ UNCHANGED <<userQuery, decision, ragResult, finalResponse, response, outcome,
                   classifyOutcome, ragOutcome, synthOutcome, ragEnv, searchOutcome,
                   directOutcome,
                   runs, agent, serverVars>>

\* node chart_tool; its only outgoing edge leads to combine_results
ExecuteChartTool ==
    /\ pc = "chart_tool"
    /\ steps' = Append(steps, "chart_tool")
    /\ \E ext \in CompletionOutcomes(ExtractionContents), inv \in InvokeOutcomes :
          IF ext.raised
          THEN /\ chartResult' = [success |-> FALSE, error |-> ext.message]
               /\ AppendMessage(Str("Chart tool failed"))
               /\ callLog' = Append(callLog, "completion.extract")
               /\ chartEnv' = [ext |-> ext, inv |-> "notCalled", params |-> Null]
          ELSE LET chartParams == IF ext.value.json THEN ext.value
                                  ELSE DefaultChartParams(userQuery)
               IN  /\ callLog' = callLog \o <<"completion.extract", "chartTool.invoke">>
                   /\ chartEnv' = [ext |-> ext, inv |-> inv, params |-> chartParams]
                   /\ IF inv = "raises"
                      THEN /\ chartResult' = [success |-> FALSE,
                                              error |-> Str("chart tool error")]
                           /\ AppendMessage(Str("Chart tool failed"))
                      ELSE /\ chartResult' = ChartToolCall(chartParams, inv = "callRaises")
                           /\ AppendMessage(Str("Chart tool executed"))
    /\ pc' = "combine_results"
    /\ UNCHANGED <<userQuery, decision, ragResult, finalResponse, response, outcome,
                   classifyOutcome, ragOutcome, synthOutcome, ragEnv, searchOutcome,
                   directOutcome,
                   runs, agent, serverVars>>

\* node rag_agent; its only outgoing edge leads to combine_results.
\* RAGAgent.query catches everything it raises, so the catch branch of
\* executeRAGAgent is never entered.
ExecuteRAGAgent ==
    /\ pc = "rag_agent"
    /\ steps' = Append(steps, "rag_agent")
    /\ \E env \in RagEnvs :
          LET r == Query(userQuery, env)
          IN  /\ ragResult' = r.result
              /\ ragOutcome' = r.result
              /\ ragEnv' = Consulted(env, r)
              /\ searchOutcome' = r.search
              /\ callLog' = callLog \o r.log
    /\ AppendMessage(Str("RAG agent executed"))
    /\ pc' = "combine_results"
    /\ UNCHANGED <<userQuery, decision, chartResult, finalResponse, response, outcome,
                   classifyOutcome, synthOutcome, chartEnv, directOutcome,
                   runs, agent, serverVars>>

\* faulty variant: directResponse also writes the decision channel
DirectResponseRewritesDecision ==
    /\ pc = "direct_response"
    /\ steps' = Append(steps, "direct_response")
    /\ callLog' = Append(callLog, "completion.direct")
    /\ decision' = JsString(DirectToken)
    /\ \E r \in CompletionOutcomes(DirectTexts) :
          /\ directOutcome' = r
          /\ IF r.raised
             THEN /\ pc' = "threw"
                  /\ UNCHANGED <<finalResponse, messages>>
             ELSE /\ finalResponse' = [answer |-> r.value, references |-> EmptyObject,
                                       fileIds |-> <<>>, chartConfig |-> Null]
                  /\ AppendMessage(r.value)
                  /\ pc' = "END"
    /\ UNCHANGED <<userQuery, chartResult, ragResult, response, outcome,
                   classifyOutcome, ragOutcome, synthOutcome, ragEnv, searchOutcome,
                   chartEnv,
                   runs, agent, serverVars>>

\* node direct_response, then END; no try/catch here either
DirectResponse ==
    /\ pc = "direct_response"
    /\ steps' = Append(steps, "direct_response")
    /\ callLog' = Append(callLog, "completion.direct")
    /\ \E r \in CompletionOutcomes(DirectTexts) :
          /\ directOutcome' = r
          /\ IF r.raised
             THEN /\ pc' = "threw"
                  /\ UNCHANGED <<finalResponse, messages>>
             ELSE /\ finalResponse' = [answer |-> r.value, references |-> EmptyObject,
                                       fileIds |-> <<>>, chartConfig |-> Null]
                  /\ AppendMessage(r.value)
                  /\ pc' = "END"
    /\ UNCHANGED <<userQuery, decision, chartResult, ragResult, response, outcome,
                   classifyOutcome, ragOutcome, synthOutcome, ragEnv, searchOutcome,
                   chartEnv,
                   runs, agent, serverVars>>

\* JavaScript truthiness of "x && x.success"
Ok(result) == result # Null /\ result.success

\* faulty variant: the deferred dispatch does not look at the decision
NeedsDeferredRagAnyDecision(cr, rr, d) ==
    cr # Null /\ rr = Null

\* faulty variant: the deferred retrieval is skipped after a failed chart
NeedsDeferredRagIfChartOk(cr, rr, d) ==
    cr # Null /\ cr.success /\ rr = Null /\ d = JsString(BothToken)

\* the deferred dispatch: combineResults runs the retrieval itself
NeedsDeferredRag(cr, rr, d) ==
    cr # Null /\ rr = Null /\ d = JsString(BothToken)

\* faulty variant: the synthesis call is made when either outcome is successful
NeedsSynthesisEither(cr, rr) == Ok(cr) \/ Ok(rr)

\* the condition of the synthesis branch (line 247)
NeedsSynthesis(cr, rr) == Ok(cr) /\ Ok(rr)

ChartPrefix == Str("I've created a chart for you. ")

CombineFallbackText == Str("I encountered an error processing your request.")

CombineErrorText == Str("I encountered an error while processing your request.")

\* faulty variant: chartConfig is never assigned
ChartConfigOfUnassigned(cr) == Null

\* chartConfig of the response (lines 231-237)
ChartConfigOf(cr) == IF Ok(cr) THEN cr.chartConfig ELSE Null

\* faulty variant: the identifiers are read from a field the outcome lacks
FileIdsOfWrongField(rr) == <<>>

\* fileIds of the response (lines 230, 240-242)
FileIdsOf(rr) == IF Ok(rr) THEN rr.sources ELSE <<>>

\* faulty variant: references are never filled
ReferencesOfNever(rr) == EmptyObject

\* faulty variant: references are filled from any retrieval outcome
ReferencesOfAnyOutcome(rr) ==
    IF rr # Null THEN [ragSources |-> IF rr.success THEN rr.sources ELSE <<>>]
    ELSE EmptyObject

\* references of the response (lines 229, 240-243)
ReferencesOf(rr) == IF Ok(rr) THEN [ragSources |-> FileIdsOf(rr)] ELSE EmptyObject

\* faulty variant: the text of any retrieval outcome is appended
PartialAnswerAnyOutcome(cr, rr) ==
    (IF Ok(cr) THEN ChartPrefix ELSE <<>>) \o (IF rr # Null THEN rr.answer ELSE <<>>)

\* finalAnswer after the two "+=" (lines 228-244)
PartialAnswer(cr, rr) ==
    (IF Ok(cr) THEN ChartPrefix ELSE <<>>) \o (IF Ok(rr) THEN rr.answer ELSE <<>>)

\* finalAnswer after the synthesis branch (lines 246-271); content is the
\* text the synthesis call returned
SynthesizedAnswer(cr, rr, content) ==
    IF Ok(cr) /\ Ok(rr) THEN content ELSE PartialAnswer(cr, rr)

\* faulty variant: the text of an unsuccessful retrieval outcome is used
FinalAnswerAnyOutcome(cr, rr, finalAnswer) ==
    IF finalAnswer # <<>> THEN finalAnswer
    ELSE IF Ok(cr)
         THEN (IF cr.message # <<>> THEN cr.message ELSE Str("Chart created successfully."))
         ELSE IF rr # Null THEN rr.answer
         ELSE CombineFallbackText

\* the "if (!finalAnswer)" block (lines 273-282)
FinalAnswer(cr, rr, finalAnswer) ==
    IF finalAnswer # <<>> THEN finalAnswer
    ELSE IF Ok(cr)
         THEN (IF cr.message # <<>> THEN cr.message ELSE Str("Chart created successfully."))
         ELSE IF Ok(rr) THEN rr.answer
         ELSE CombineFallbackText

\* the response of the try block of combineResults when nothing raises
CombineResponse(cr, rr, content) ==
    [answer      |-> FinalAnswer(cr, rr, SynthesizedAnswer(cr, rr, content)),
     references  |-> ReferencesOf(rr),
     fileIds     |-> FileIdsOf(rr),
     chartConfig |-> ChartConfigOf(cr)]

\* faulty variant: the catch block of combineResults leaves finalResponse unset
CombineErrorResponseUnset == Null

\* the response of the catch block of combineResults
CombineErrorResponse ==
    [answer |-> CombineErrorText, references |-> EmptyObject,
     fileIds |-> <<>>, chartConfig |-> Null]

\* faulty variant: combineResults without its try/catch
CombineResultsNoCatch ==
    /\ pc = "combine_results"
    /\ steps' = Append(steps, "combine_results")
    /\ LET deferred == NeedsDeferredRag(chartResult, ragResult, decision)
       IN  \E env \in (IF deferred THEN RagEnvs ELSE {Null}),
              synth \in CompletionOutcomes(SynthesisTexts) :
              LET rq   == IF deferred THEN Query(userQuery, env)
                          ELSE [result |-> ragResult, search |-> searchOutcome,
                                log |-> <<>>]
                  rr   == rq.result
                  both == NeedsSynthesis(chartResult, rr)
              IN  /\ callLog' = callLog \o rq.log \o
                                (IF both THEN <<"completion.synthesize">> ELSE <<>>)
                  /\ ragOutcome' = rr
                  /\ ragEnv' = IF deferred THEN Consulted(env, rq) ELSE ragEnv
                  /\ searchOutcome' = rq.search
                  /\ synthOutcome' = IF both THEN synth ELSE Null
                  /\ IF both /\ synth.raised
                     THEN /\ pc' = "threw"
                          /\ UNCHANGED <<finalResponse, messages>>
                     ELSE LET content == IF both THEN synth.value ELSE <<>>
                          IN  /\ finalResponse' = CombineResponse(chartResult, rr, content)
                              /\ AppendMessage(finalResponse'.answer)
                              /\ pc' = "END"
    /\ UNCHANGED <<userQuery, decision, chartResult, ragResult, response, outcome,
                   classifyOutcome, chartEnv, directOutcome,
                   runs, agent, serverVars>>

\* node combine_results, then END.  The only call of the try block that can
\* raise is the synthesis call (RAGAgent.query never raises).
CombineResults ==
    /\ pc = "combine_results"
    /\ steps' = Append(steps, "combine_results")
    /\ LET deferred == NeedsDeferredRag(chartResult, ragResult, decision)
       IN  \E env \in (IF deferred THEN RagEnvs ELSE {Null}),
              synth \in CompletionOutcomes(SynthesisTexts) :
              LET rq   == IF deferred THEN Query(userQuery, env)
                          ELSE [result |-> ragResult, search |-> searchOutcome,
                                log |-> <<>>]
                  rr   == rq.result
                  both == NeedsSynthesis(chartResult, rr)
              IN  /\ callLog' = callLog \o rq.log \o
                                (IF both THEN <<"completion.synthesize">> ELSE <<>>)
                  /\ ragOutcome' = rr
                  /\ ragEnv' = IF deferred THEN Consulted(env, rq) ELSE ragEnv
                  /\ searchOutcome' = rq.search
                  /\ synthOutcome' = IF both THEN synth ELSE Null
                  /\ IF both /\ synth.raised
                     THEN /\ finalResponse' = CombineErrorResponse
                          /\ AppendMessage(Str("Error in combining results"))
                     ELSE LET content == IF both THEN synth.value ELSE <<>>
                          IN  /\ finalResponse' = CombineResponse(chartResult, rr, content)
                              /\ AppendMessage(finalResponse'.answer)
    /\ pc' = "END"
    /\ UNCHANGED <<userQuery, decision, chartResult, ragResult, response, outcome,
                   classifyOutcome, chartEnv, directOutcome,
                   runs, agent, serverVars>>

NoResponse ==
    [answer |-> Str("No response generated."), references |-> EmptyObject,
     fileIds |-> <<>>, chartConfig |-> Null]

ProcessQueryErrorResponse ==
    [answer |-> Str("I encountered an error while processing your query."),
     references |-> EmptyObject, fileIds |-> <<>>, chartConfig |-> Null]

\* faulty variant: processQuery without its try/catch
ProcessQueryReturnNoCatch ==
    /\ pc \in {"END", "threw"}
    /\ response' = IF pc = "threw" THEN Null
                   ELSE IF finalResponse # Null THEN finalResponse
                   ELSE NoResponse
    /\ outcome' = IF pc = "threw" THEN "raised" ELSE "returned"
    /\ pc' = "returned"
    /\ UNCHANGED <<userQuery, messages, decision, chartResult, ragResult,
                   finalResponse, steps, callLog, classifyOutcome, ragOutcome,
                   synthOutcome, ragEnv, searchOutcome, chartEnv, directOutcome,
                   runs, agent, serverVars>>

\* faulty variant: processQuery never settles when the graph raised
ProcessQueryReturnUnlessRaised ==
    /\ pc = "END"
    /\ response' = IF finalResponse # Null THEN finalResponse ELSE NoResponse
    /\ outcome' = "returned"
    /\ pc' = "returned"
    /\ UNCHANGED <<userQuery, messages, decision, chartResult, ragResult,
                   finalResponse, steps, callLog, classifyOutcome, ragOutcome,
                   synthOutcome, ragEnv, searchOutcome, chartEnv, directOutcome,
                   runs, agent, serverVars>>

\* processQuery after app.invoke settled: the return statement of the try
\* block, or the catch block when the graph raised
ProcessQueryReturn ==
    /\ pc \in {"END", "threw"}
    /\ response' = IF pc = "threw" THEN ProcessQueryErrorResponse
                   ELSE IF finalResponse # Null THEN finalResponse
                   ELSE NoResponse
    /\ outcome' = "returned"
    /\ pc' = "returned"
    /\ UNCHANGED <<userQuery, messages, decision, chartResult, ragResult,
                   finalResponse, steps, callLog, classifyOutcome, ragOutcome,
                   synthOutcome, ragEnv, searchOutcome, chartEnv, directOutcome,
                   runs, agent, serverVars>>

----------------------------------------------------------------------------
(* Two runs of processQuery on one DelegatingAgent instance.  A step of a    *)
(* run goes from one await to the next; what a node keeps in local variables *)
(* across an await is the field locals of the run.                           *)

\* the two runs
RunIds == {1, 2}

\* this.chartTool, this.ragAgent, this.app: assigned by the constructor
TheAgent == [chartTool |-> "ChartTool", ragAgent |-> "RAGAgent", app |-> "graph"]

\* the channels of a run before processQuery wrote its initial state
InitialRun ==
    [pc |-> "idle", userQuery |-> <<>>, messages |-> <<>>, decision |-> Null,
     chartResult |-> Null, ragResult |-> Null, finalResponse |-> Null,
     response |-> Null, locals |-> Null]

\* [...state.messages, m] reduced into the channel
WithMessage(st, content) ==
    MessagesReducer(st.messages, Append(st.messages, Message("assistant", content)))

\* what a run hears at a step: the caller's query, or the answer of the call
\* it awaits; the fields a step does not use are NoInput
NoInput == [raised |-> TRUE, message |-> Str("no input")]

Heard(query, completion, inv, env) ==
    [query |-> query, completion |-> completion, inv |-> inv, env |-> env]

\* the queries of the two runs:  "What is ML?"  and  "Hi!"
PairQueries == {q \in Queries : Len(q) <= 11}

\* outcomes of the classification call: one text per token, or an exception
PairClassifications ==
    {c \in CompletionOutcomes(ClassificationTexts) :
        c.raised \/ Classify(c.value) \in {ChartToken, RagToken, BothToken, DirectToken}}

\* outcomes of the extraction call: unparsable, a pie chart, or an exception
PairExtractions ==
    {c \in CompletionOutcomes(ExtractionContents) :
        c.raised \/ ~c.value.json
                 \/ (~c.value.isNull /\ c.value.chartType = "pie" /\ c.value.title = "Sales")}

\* answers to RAGAgent.query: one entry found and answered, one entry found
\* and the answer call raising, every tier raising
PairRagEnvs ==
    {e \in RagEnvs :
        \/ /\ ~e.first.raised
           /\ e.first.value = <<Entry("file1")>>
           /\ e.shape = "graphql"
           /\ (e.answer.raised \/ e.answer.value # <<>>)
        \/ /\ e.first.raised
           /\ e.second.raised
           /\ e.last.raised
           /\ e.shape = "graphql"
           /\ e.answer.raised}

\* what a run at position p may hear
PairInputs(p) ==
    CASE p = "idle" ->
           {Heard(q, NoInput, "none", NoInput) : q \in PairQueries}
      [] p = "analyze_query" ->
           {Heard(<<>>, c, "none", NoInput) : c \in PairClassifications}
      [] p = "chart_tool" ->
           {Heard(<<>>, c, "none", NoInput) : c \in PairExtractions}
      [] p = "chart_tool.invoke" ->
           {Heard(<<>>, NoInput, v, NoInput) : v \in InvokeOutcomes}
      [] p \in {"rag_agent", "combine_results"} ->
           {Heard(<<>>, NoInput, "none", e) : e \in PairRagEnvs}
      [] p = "direct_response" ->
           {Heard(<<>>, c, "none", NoInput) : c \in CompletionOutcomes({<<"D">>})}
      [] p = "combine_results.synthesize" ->
           {Heard(<<>>, c, "none", NoInput) : c \in CompletionOutcomes({<<"S">>})}
      [] OTHER ->
           {Heard(<<>>, NoInput, "none", NoInput)}

\* combineResults from the point where ragResult is known (rr) up to the
\* synthesis call, or to its return when that call is not made
CombineFrom(st, rr) ==
    IF NeedsSynthesis(st.chartResult, rr)
    THEN [st EXCEPT !.locals = [ragResult |-> rr],
                    !.pc = "combine_results.synthesize"]
    ELSE LET r == CombineResponse(st.chartResult, rr, <<>>)
         IN  [st EXCEPT !.finalResponse = r,
                        !.messages = WithMessage(st, r.answer),
                        !.locals = Null,
                        !.pc = "END"]

\* one step of a run: from the state st, having heard in at the await it was
\* at, to the next await.  Every step reads st, in and this (the instance)
\* only.
StepOf(st, in, this) ==
    CASE st.pc = "idle" ->
           \* processQuery: initialState, app.invoke
           [st EXCEPT !.userQuery = in.query,
                      !.messages = MessagesReducer(<<>>, <<Message("user", in.query)>>),
                      !.pc = "analyze_query"]
      [] st.pc = "analyze_query" ->
           IF in.completion.raised
           THEN [st EXCEPT !.pc = "threw"]
           ELSE LET d == Classify(in.completion.value)
                IN  [st EXCEPT !.decision = JsString(d),
                               !.messages = WithMessage(st, <<"Decision: ">> \o d),
                               !.pc = RouteDecision(JsString(d))]
      [] st.pc = "chart_tool" ->
           \* the extraction call settled
           IF in.completion.raised
           THEN [st EXCEPT !.chartResult = [success |-> FALSE,
                                            error |-> in.completion.message],
                           !.messages = WithMessage(st, Str("Chart tool failed")),
                           !.pc = "combine_results"]
           ELSE [st EXCEPT !.locals = [chartParams |->
                                          IF in.completion.value.json
                                          THEN in.completion.value
                                          ELSE DefaultChartParams(st.userQuery),
                                       tool |-> this.chartTool],
                           !.pc = "chart_tool.invoke"]
      [] st.pc = "chart_tool.invoke" ->
           \* this.chartTool.invoke settled
           IF in.inv = "raises"
           THEN [st EXCEPT !.chartResult = [success |-> FALSE,
                                            error |-> Str("chart tool error")],
                           !.messages = WithMessage(st, Str("Chart tool failed")),
                           !.locals = Null,
                           !.pc = "combine_results"]
           ELSE [st EXCEPT !.chartResult = ChartToolCall(st.locals.chartParams,
                                                         in.inv = "callRaises"),
                           !.messages = WithMessage(st, Str("Chart tool executed")),
                           !.locals = Null,
                           !.pc = "combine_results"]
      [] st.pc = "rag_agent" ->
           \* this.ragAgent.query settled
           [st EXCEPT !.ragResult = Query(st.userQuery, in.env).result,
                      !.messages = WithMessage(st, Str("RAG agent executed")),
                      !.pc = "combine_results"]
      [] st.pc = "direct_response" ->
           IF in.completion.raised
           THEN [st EXCEPT !.pc = "threw"]
           ELSE [st EXCEPT !.finalResponse =
                               [answer |-> in.completion.value,
                                references |-> EmptyObject,
                                fileIds |-> <<>>, chartConfig |-> Null],
                           !.messages = WithMessage(st, in.completion.value),
                           !.pc = "END"]
      [] st.pc = "combine_results" ->
           \* the deferred this.ragAgent.query settled, or there was none
           IF NeedsDeferredRag(st.chartResult, st.ragResult, st.decision)
           THEN CombineFrom(st, Query(st.userQuery, in.env).result)
           ELSE CombineFrom(st, st.ragResult)
      [] st.pc = "combine_results.synthesize" ->
           \* the synthesis call settled
           IF in.completion.raised
           THEN [st EXCEPT !.finalResponse = CombineErrorResponse,
                           !.messages = WithMessage(st, Str("Error in combining results")),
                           !.locals = Null,
                           !.pc = "END"]
           ELSE LET r == CombineResponse(st.chartResult, st.locals.ragResult,
                                         in.completion.value)
                IN  [st EXCEPT !.finalResponse = r,
                               !.messages = WithMessage(st, r.answer),
                               !.locals = Null,
                               !.pc = "END"]
      [] st.pc = "END" ->
           [st EXCEPT !.response = IF st.finalResponse # Null THEN st.finalResponse
                                   ELSE NoResponse,
                      !.pc = "returned"]
      [] st.pc = "threw" ->
           [st EXCEPT !.response = ProcessQueryErrorResponse, !.pc = "returned"]

\* faulty variant: the decision channel is held by the instance, so that the
\* classification of one run overwrites the decision of the other
RunStepSharedDecision(i) ==
    /\ runs[i].st.pc # "returned"
    /\ \E in \in PairInputs(runs[i].st.pc) :
          LET next == StepOf(runs[i].st, in, agent)
          IN  runs' = [j \in RunIds |->
                          IF j = i
                          THEN [st |-> next, heard |-> Append(runs[i].heard, in)]
                          ELSE [runs[j] EXCEPT !.st.decision =
                                   IF @ # Null /\ next.decision # Null
                                   THEN next.decision ELSE @]]
    /\ UNCHANGED <<soloVars, agent, serverVars>>

\* run i takes its next step; nothing of the instance is assigned
RunStep(i) ==
    /\ runs[i].st.pc # "returned"
    /\ \E in \in PairInputs(runs[i].st.pc) :
          runs' = [runs EXCEPT ![i] = [st |-> StepOf(@.st, in, agent),
                                       heard |-> Append(@.heard, in)]]
    /\ UNCHANGED <<soloVars, agent, serverVars>>

----------------------------------------------------------------------------
(* The HTTP server (src/src/index.js) and setupWeaviate (src/unnamed/part_002). *)
(* A handler runs uninterrupted from one await to the next, so an action is      *)
(* the stretch of a handler between two awaits, and the handlers of different    *)
(* requests interleave at their awaits.                                          *)

\* sampleData holds five entries
SampleCount == 5

Samples == 1..SampleCount

RequestIds == 1..MaxRequests

\* req.body.query when the body carries no query
NoQuery == [tag |-> "undefined"]

\* req.body.query: absent, the empty string, or a query
Bodies == {NoQuery, JsString(<<>>), JsString(<<"H","i","!">>)}

\* !query
Falsy(v) == v = NoQuery \/ v = JsString(<<>>)

\* let delegatingAgent; (undefined until /setup assigns it)
NoAgent == 0

\* the store before any setup: no class, no tenant, no object
EmptyStore == [class |-> FALSE, tenant |-> FALSE, copies |-> [k \in Samples |-> 0]]

\* a request slot: kind and position of its handler, the body's query, the
\* sample entry being inserted, the status answered (0 while unanswered), and
\* the instance whose processQuery the handler invoked (NoAgent if none)
NoRequest == [kind |-> "none", pc |-> "none", query |-> NoQuery, k |-> 0,
              status |-> 0, served |-> NoAgent]

\* the /setup requests answered 200 so far
SetupsOk == {i \in RequestIds : requests[i].kind = "setup" /\ requests[i].status = 200}

\* the slot of the next request to arrive
NextId == Cardinality({i \in RequestIds : requests[i].kind # "none"}) + 1

\* res.status(code).json(...): the handler answers and ends
Respond(r, code) == [r EXCEPT !.status = code, !.pc = "done"]

\* POST /setup arrives: the handler calls setupWeaviate, which awaits the
\* existence check
SetupRequest ==
    /\ NextId <= MaxRequests
    /\ requests' = [requests EXCEPT ![NextId] =
                       [NoRequest EXCEPT !.kind = "setup", !.pc = "schema.exists"]]
    /\ UNCHANGED <<delegatingAgent, instances, store, created>>
    /\ UNCHANGED <<soloVars, runs, agent>>

\* faulty variant: the initialisation check comes before the query check
QueryRequestGateFirst(body) ==
    /\ NextId <= MaxRequests
    /\ requests' = [requests EXCEPT ![NextId] =
          LET r == [NoRequest EXCEPT !.kind = "query", !.query = body]
          IN  IF delegatingAgent = NoAgent THEN Respond(r, 503)
              ELSE IF Falsy(body) THEN Respond(r, 400)
              ELSE [r EXCEPT !.pc = "processQuery", !.served = delegatingAgent]]
    /\ UNCHANGED <<delegatingAgent, instances, store, created>>
    /\ UNCHANGED <<soloVars, runs, agent>>

\* POST /query arrives: 400 without a query, 503 without an agent, else the
\* handler invokes processQuery on the instance held and awaits it
QueryRequest(body) ==
    /\ NextId <= MaxRequests
    /\ requests' = [requests EXCEPT ![NextId] =
          LET r == [NoRequest EXCEPT !.kind = "query", !.query = body]
          IN  IF Falsy(body) THEN Respond(r, 400)
              ELSE IF delegatingAgent = NoAgent THEN Respond(r, 503)
              ELSE [r EXCEPT !.pc = "processQuery", !.served = delegatingAgent]]
    /\ UNCHANGED <<delegatingAgent, instances, store, created>>
    /\ UNCHANGED <<soloVars, runs, agent>>

\* processQuery resolves (it never rejects: every failure becomes its error
\* response) and the handler answers 200
QueryResponds(i) ==
    /\ requests[i].pc = "processQuery"
    /\ requests' = [requests EXCEPT ![i] = Respond(@, 200)]
    /\ UNCHANGED <<delegatingAgent, instances, store, created>>
    /\ UNCHANGED <<soloVars, runs, agent>>

\* faulty variant: a failed setup clears the agent
SetupFailedClearsAgent(i) ==
    /\ requests' = [requests EXCEPT ![i] = Respond(@, 500)]
    /\ delegatingAgent' = NoAgent
    /\ UNCHANGED instances

\* setupWeaviate rethrows, the handler of /setup catches and answers 500
SetupFailed(i) ==
    /\ requests' = [requests EXCEPT ![i] = Respond(@, 500)]
    /\ UNCHANGED <<delegatingAgent, instances>>

\* setupWeaviate resolves: the handler constructs a new DelegatingAgent, assigns
\* it and answers 200
SetupSucceeded(i) ==
    /\ instances' = instances + 1
    /\ delegatingAgent' = instances + 1
    /\ requests' = [requests EXCEPT ![i] = Respond(@, 200)]

\* faulty variant: the class is created whatever the existence check answers
SchemaExistsUnguarded(i) ==
    /\ requests[i].pc = "schema.exists"
    /\ \/ SetupFailed(i)
       \/ /\ requests' = [requests EXCEPT ![i].pc = "classCreator"]
          /\ UNCHANGED <<delegatingAgent, instances>>
    /\ UNCHANGED <<store, created>>
    /\ UNCHANGED <<soloVars, runs, agent>>

\* client.schema.exists settles: it raises, or answers whether the class
\* exists, and only a missing class is created
SchemaExists(i) ==
    /\ requests[i].pc = "schema.exists"
    /\ \/ SetupFailed(i)
       \/ /\ requests' = [requests EXCEPT ![i].pc = IF store.class THEN "tenantsCreator"
                                                                   ELSE "classCreator"]
          /\ UNCHANGED <<delegatingAgent, instances>>
    /\ UNCHANGED <<store, created>>
    /\ UNCHANGED <<soloVars, runs, agent>>

\* classCreator settles: the store creates the class when it holds none of
\* that name, or the call raises and setup is over
ClassCreator(i) ==
    /\ requests[i].pc = "classCreator"
    /\ \/ /\ ~store.class
          /\ store' = [store EXCEPT !.class = TRUE]
          /\ created' = created + 1
          /\ requests' = [requests EXCEPT ![i].pc = "tenantsCreator"]
          /\ UNCHANGED <<delegatingAgent, instances>>
       \/ /\ SetupFailed(i)
          /\ UNCHANGED <<store, created>>
    /\ UNCHANGED <<soloVars, runs, agent>>

\* how tenantsCreator settles: the tenant is created, or the call raises
\* because the tenant exists, or it raises for another reason
TenantOutcomes ==
    {Return("created"), Raise("tenant already exists"), Raise("tenant creation failed")}

\* tenantsCreator settles; its failure is caught and logged, and setup goes on
\* to insert the first sample entry
TenantsCreator(i) ==
    /\ requests[i].pc = "tenantsCreator"
    /\ \E o \in TenantOutcomes :
          /\ o = Return("created") => ~store.tenant
          /\ o = Raise("tenant already exists") => store.tenant
          /\ store' = [store EXCEPT !.tenant = @ \/ ~o.raised]
          /\ requests' = [requests EXCEPT ![i].pc = "creator", ![i].k = 1]
    /\ UNCHANGED <<delegatingAgent, instances, created>>
    /\ UNCHANGED <<soloVars, runs, agent>>

\* the store takes sample entry k of request i; setup goes on to the next
\* entry, or resolves after the last
Inserted(i) ==
    /\ store' = [store EXCEPT !.copies[requests[i].k] = @ + 1]
    /\ IF requests[i].k < SampleCount
       THEN /\ requests' = [requests EXCEPT ![i].k = @ + 1, ![i].pc = "creator"]
            /\ UNCHANGED <<delegatingAgent, instances>>
       ELSE SetupSucceeded(i)

\* the insert with the tenant settles; when it raises, the entry is inserted
\* again without the tenant
Creator(i) ==
    /\ requests[i].pc = "creator"
    /\ \/ Inserted(i)
       \/ /\ requests' = [requests EXCEPT ![i].pc = "creator.retry"]
          /\ UNCHANGED <<delegatingAgent, instances, store>>
    /\ UNCHANGED created
    /\ UNCHANGED <<soloVars, runs, agent>>

\* the insert without the tenant settles; when it raises, setup is over
CreatorRetry(i) ==
    /\ requests[i].pc = "creator.retry"
    /\ \/ Inserted(i)
       \/ /\ SetupFailed(i)
          /\ UNCHANGED store
    /\ UNCHANGED created
    /\ UNCHANGED <<soloVars, runs, agent>>

Init ==
    /\ pc = "idle"
    /\ userQuery = <<>>
    /\ messages = <<>>
    /\ decision = Null
    /\ chartResult = Null
    /\ ragResult = Null
    /\ finalResponse = Null
    /\ response = Null
    /\ outcome = "none"
    /\ steps = <<>>
    /\ callLog = <<>>
    /\ classifyOutcome = Null
    /\ ragOutcome = Null
    /\ synthOutcome = Null
    /\ ragEnv = Null
    /\ searchOutcome = Null
    /\ chartEnv = Null
    /\ directOutcome = Null
    /\ runs = [i \in RunIds |-> [st |-> InitialRun, heard |-> <<>>]]
    /\ agent = TheAgent
    /\ delegatingAgent = NoAgent
    /\ instances = 0
    /\ store = EmptyStore
    /\ created = 0
    /\ requests = [i \in RequestIds |-> NoRequest]

Next ==
    \/ \E q \in Queries : ProcessQuery(q)
    \/ AnalyzeQuery
    \/ ExecuteChartTool
    \/ ExecuteRAGAgent
    \/ DirectResponse
    \/ CombineResults
    \/ ProcessQueryReturn

Spec == Init /\ [][Next]_vars

\* the steps of the two runs, interleaved in any order
PairNext == \E i \in RunIds : RunStep(i)

PairSpec == Init /\ [][PairNext]_vars

\* the requests arrive in any order and their handlers interleave at the awaits
ServerNext ==
    \/ SetupRequest
    \/ \E body \in Bodies : QueryRequest(body)
    \/ \E i \in RequestIds : QueryResponds(i)
    \/ \E i \in RequestIds : SchemaExists(i)
    \/ \E i \in RequestIds : ClassCreator(i)
    \/ \E i \in RequestIds : TenantsCreator(i)
    \/ \E i \in RequestIds : Creator(i)
    \/ \E i \in RequestIds : CreatorRetry(i)

ServerSpec == Init /\ [][ServerNext]_vars

\* the values of pc
Positions == {"idle", "analyze_query", "chart_tool", "rag_agent", "direct_response",
              "combine_results", "END", "threw", "returned"}

\* the run leaves its position: the call or step it awaits there has settled
Advance == pc # "returned" /\ pc' \in Positions \ {pc}

\* every awaited call settles, so a run that has not returned moves on
FairSpec == Spec /\ WF_pc(Advance)

----------------------------------------------------------------------------
(* Properties *)

Tokens == {ChartToken, RagToken, BothToken, DirectToken}

DecisionIs(token) == decision = JsString(token)

Executed(node) == Count(steps, node)

RagQueries == Count(callLog, "ragAgent.query")

\* the run left the graph: normally, by an exception, or processQuery returned
Settled == pc \in {"END", "threw", "returned"}

\* the four fields of a response, with the types the transport layer expects
WellFormed(r) ==
    /\ r # Null
    /\ DOMAIN r = {"answer", "references", "fileIds", "chartConfig"}
    /\ r.answer \in Seq(STRING)
    /\ r.references = EmptyObject \/ DOMAIN r.references = {"ragSources"}
    /\ r.fileIds \in Seq(FileIds)
    /\ r.chartConfig = Null \/ "type" \in DOMAIN r.chartConfig

\* C1: processQuery never raises; whatever the decision and whichever
\* collaborator calls raise, it returns an object with the fields answer
\* (string), references (mapping), fileIds (sequence), chartConfig (chart or null).
C1_NoThrow ==
    /\ outcome # "raised"
    /\ pc = "returned" => outcome = "returned" /\ WellFormed(response)

\* a run whose classification call raised: processQuery caught the exception
\* and returned its error response
C1_Witness ==
    /\ pc = "returned"
    /\ classifyOutcome.raised
    /\ response = ProcessQueryErrorResponse

\* C2: after classification the stored decision is one of chart, rag, both,
\* direct; a completion text that (lower-cased, trimmed) is none of them is
\* stored as rag and the run is routed to the Retrieval Handler.
C2_ClassificationFallback ==
    (classifyOutcome # Null /\ ~classifyOutcome.raised) =>
        /\ decision # Null
        /\ decision.chars \in Tokens
        /\ Trim(ToLowerCase(classifyOutcome.value)) \notin Tokens =>
              /\ DecisionIs(RagToken)
              /\ steps = <<"analyze_query">> => pc = "rag_agent"
              /\ Len(steps) >= 2 => steps[2] = "rag_agent"

\* C3: no run executes the Visualization Handler or the Retrieval Handler
\* more than once, and a run whose decision is both executes each of them
\* exactly once, whether the visualization succeeded or failed.
C3_SingleDispatch ==
    /\ Executed("chart_tool") <= 1
    /\ RagQueries <= 1
    /\ (DecisionIs(BothToken) /\ Settled) =>
          Executed("chart_tool") = 1 /\ RagQueries = 1

\* a finished both-run whose visualization failed
C3_Witness ==
    /\ pc = "returned"
    /\ DecisionIs(BothToken)
    /\ ~Ok(chartResult)
    /\ RagQueries = 1

\* C4: decision both, visualization successful, retrieval unsuccessful: the
\* answer is the visualization's own message (chartResult.message) and
\* chartConfig is the visualization's chart structure, not null.
C4_PartialFailureAnswer ==
    (pc = "END" /\ DecisionIs(BothToken) /\ Ok(chartResult)
        /\ ragOutcome # Null /\ ~ragOutcome.success) =>
        /\ finalResponse.answer = chartResult.message
        /\ finalResponse.chartConfig = chartResult.chartConfig
        /\ finalResponse.chartConfig # Null

\* C5: decision both, visualization unsuccessful: the Retrieval Handler is
\* still executed after it, and when the retrieval is successful the response
\* carries its answer, its source ids as fileIds and as references.ragSources,
\* and a null chartConfig.
C5_RetrievalAfterFailedChart ==
    (Settled /\ DecisionIs(BothToken) /\ ~Ok(chartResult)) =>
        /\ RagQueries = 1
        /\ steps = <<"analyze_query", "chart_tool", "combine_results">>
        /\ ragOutcome # Null
        /\ ragOutcome.success =>
              /\ finalResponse =
                    [answer      |-> ragOutcome.answer,
                     references  |-> [ragSources |-> ragOutcome.sources],
                     fileIds     |-> ragOutcome.sources,
                     chartConfig |-> Null]
              /\ pc = "returned" => response = finalResponse

\* a returned both-run: failed visualization, successful retrieval with sources
C5_Witness ==
    /\ pc = "returned"
    /\ DecisionIs(BothToken)
    /\ ~Ok(chartResult)
    /\ Ok(ragOutcome)
    /\ Len(ragOutcome.sources) = MaxResults
    /\ response.fileIds = ragOutcome.sources

\* C6: both outcomes successful and the synthesis call returned: the answer is
\* exactly the synthesis output, chartConfig the visualization's chart
\* structure and fileIds the retrieval's source ids.
C6_SynthesisReplaces ==
    (pc = "END" /\ Ok(chartResult) /\ Ok(ragOutcome)
        /\ synthOutcome # Null /\ ~synthOutcome.raised) =>
        /\ finalResponse.answer = synthOutcome.value
        /\ finalResponse.chartConfig = chartResult.chartConfig
        /\ finalResponse.fileIds = ragOutcome.sources

\* C7: the combination step ran and neither outcome is successful (an absent
\* outcome counts as unsuccessful): the answer is the fixed string
\* "I encountered an error processing your request.", references and fileIds
\* are empty and chartConfig is null.
C7_NeitherSuccessful ==
    (Executed("combine_results") = 1 /\ ~Ok(chartResult) /\ ~Ok(ragOutcome)) =>
        /\ pc \in {"END", "returned"}
        /\ finalResponse =
              [answer |-> CombineFallbackText, references |-> EmptyObject,
               fileIds |-> <<>>, chartConfig |-> Null]

\* a both-run where the visualization failed and the retrieval soft-missed
C7_Witness ==
    /\ pc = "END"
    /\ DecisionIs(BothToken)
    /\ chartResult # Null /\ ~chartResult.success
    /\ ragOutcome # Null /\ ~ragOutcome.success
    /\ ragOutcome.answer = SoftMissText
    /\ finalResponse.answer = CombineFallbackText

\* C8 as stated: every response of a run that went through the combination
\* step has chartConfig equal to the visualization's chart structure if the
\* visualization succeeded and null otherwise.
C8_ChartConfigAlways ==
    (Executed("combine_results") = 1 /\ finalResponse # Null) =>
        finalResponse.chartConfig = (IF Ok(chartResult) THEN chartResult.chartConfig ELSE Null)

\* C8 amended: as C8, except when the synthesis call raised inside the
\* combination step; the response is then the error response, whose
\* chartConfig is null although the visualization succeeded.
C8_ChartConfigUnlessCaught ==
    (Executed("combine_results") = 1 /\ finalResponse # Null) =>
        IF synthOutcome # Null /\ synthOutcome.raised
        THEN Ok(chartResult) /\ finalResponse.chartConfig = Null
        ELSE finalResponse.chartConfig =
                (IF Ok(chartResult) THEN chartResult.chartConfig ELSE Null)

\* a combined response that carries the chart of a successful visualization
C8_Witness ==
    /\ pc = "END"
    /\ Executed("combine_results") = 1
    /\ Ok(chartResult)
    /\ finalResponse.chartConfig = chartResult.chartConfig
    /\ finalResponse.chartConfig # Null

\* a successful retrieval contributed to the response: the combination step
\* built it outside its catch block
RetrievalContributed ==
    /\ Executed("combine_results") = 1
    /\ Ok(ragOutcome)
    /\ ~(synthOutcome # Null /\ synthOutcome.raised)

\* C9: in every final response, references is {ragSources: <source ids>} only
\* if a successful retrieval outcome contributed to it, and the empty mapping
\* otherwise (chart-only, direct, failed or soft-missed retrieval, error paths).
C9_References ==
    /\ finalResponse # Null =>
          finalResponse.references =
              (IF RetrievalContributed THEN [ragSources |-> ragOutcome.sources]
               ELSE EmptyObject)
    /\ response # Null =>
          response.references =
              (IF RetrievalContributed THEN [ragSources |-> ragOutcome.sources]
               ELSE EmptyObject)

\* a returned rag-run whose retrieval soft-missed: references is empty
C9_Witness ==
    /\ pc = "returned"
    /\ DecisionIs(RagToken)
    /\ ragOutcome # Null /\ ~ragOutcome.success
    /\ response.references = EmptyObject

\* C10: the combination step never raises; when the synthesis call raises
\* inside it, it returns the error response (answer "I encountered an error
\* while processing your request.", references {}, fileIds [], chartConfig
\* null) and the run ends normally with that response.
C10_CombineNeverRaises ==
    Executed("combine_results") = 1 =>
        /\ pc \in {"END", "returned"}
        /\ finalResponse # Null
        /\ (synthOutcome # Null /\ synthOutcome.raised) =>
              /\ finalResponse = CombineErrorResponse
              /\ pc = "returned" => outcome = "returned" /\ response = CombineErrorResponse

\* a returned run whose synthesis call raised
C10_Witness ==
    /\ pc = "returned"
    /\ synthOutcome # Null /\ synthOutcome.raised
    /\ response = CombineErrorResponse

\* the tiers of the fallback chain, as recorded for the directSearch of this run
Tier1Raised == ragEnv.first.raised

Tier2Invoked == Count(searchOutcome.log, "graphql.where") >= 1

Tier3Invoked == Count(searchOutcome.log, "data.getter") >= 1

Tier2Raised == Tier2Invoked /\ ragEnv.second.raised

\* the keyword search is skipped: the similarity search raised and the query
\* has no keyword
Tier2Skipped == Tier1Raised /\ Keywords(userQuery) = <<>>

SearchMissed ==
    /\ searchOutcome # Null
    /\ ~searchOutcome.success \/ searchOutcome.results = <<>>

\* C12: whenever the fallback chain yields zero entries or reports overall
\* failure, the Retrieval Handler returns, without raising, the outcome
\* {success: false, answer: "I could not find relevant information in the
\* database.", sources: []} and makes no completion call.
C12_SoftMiss ==
    SearchMissed =>
        /\ ragOutcome = [success |-> FALSE, answer |-> SoftMissText, sources |-> <<>>]
        /\ Count(callLog, "completion.answer") = 0
        /\ pc # "threw"

\* the chain reported overall failure: the last fetch raised too
C12_Witness ==
    /\ searchOutcome # Null
    /\ ~searchOutcome.success
    /\ ragEnv.last.raised
    /\ ragOutcome.answer = SoftMissText

\* entries were retrieved and the answer-synthesis call raised
AnswerCallRaised ==
    /\ searchOutcome # Null
    /\ searchOutcome.success
    /\ searchOutcome.results # <<>>
    /\ ragEnv.answer.raised

IsString(v) == v \in Seq(STRING)

ExtractionUnparsable ==
    /\ chartEnv # Null
    /\ ~chartEnv.ext.raised
    /\ ~chartEnv.ext.value.json

\* C14: the Visualization Handler step never raises to the orchestrator and
\* always writes an outcome; when the extraction response cannot be parsed it
\* proceeds with chart kind "bar", title "Data Visualization" and the original
\* query as data description, and (the chart tool returning) the outcome is
\* successful with a non-null chart structure of type bar.
C14_ChartStepDefaults ==
    /\ Executed("chart_tool") = 1 =>
          /\ pc \in {"combine_results", "END", "returned"}
          /\ chartResult # Null
          /\ "success" \in DOMAIN chartResult
    /\ ExtractionUnparsable =>
          /\ chartEnv.params # Null
          /\ chartEnv.params.chartType = "bar"
          /\ chartEnv.params.title = "Data Visualization"
          /\ chartEnv.params.data = userQuery
          /\ chartEnv.inv = "returns" =>
                /\ chartResult.success
                /\ chartResult.chartConfig # Null
                /\ chartResult.chartConfig.type = "bar"
                /\ chartResult.chartConfig.title = "Data Visualization"

\* an unparsable extraction followed by a successful bar chart
C14_Witness ==
    /\ ExtractionUnparsable
    /\ chartEnv.inv = "returns"
    /\ Ok(chartResult)
    /\ chartResult.chartConfig.type = "bar"

\* C15: a run whose decision is chart and whose visualization succeeds ends
\* with chartConfig.type among bar, line, pie, doughnut, radar, whatever kind
\* the extraction returned, with fileIds [] and without any execution of the
\* Retrieval Handler.
C15_ChartOnly ==
    (DecisionIs(ChartToken) /\ pc \in {"END", "returned"} /\ Ok(chartResult)) =>
        /\ finalResponse.chartConfig # Null
        /\ finalResponse.chartConfig.type \in ChartKinds
        /\ finalResponse.fileIds = <<>>
        /\ RagQueries = 0
        /\ Executed("rag_agent") = 0

\* s is an initial segment of t
IsPrefix(s, t) == Len(s) <= Len(t) /\ SubSeq(t, 1, Len(s)) = s

\* C16: in a run whose decision is direct neither handler nor the combination
\* step executes, the completion service is called exactly once after
\* classification, and if that call returns the final response is the
\* generated text with references {}, fileIds [] and chartConfig null.
C16_DirectPath ==
    DecisionIs(DirectToken) =>
        /\ IsPrefix(steps, <<"analyze_query", "direct_response">>)
        /\ IsPrefix(callLog, <<"completion.classify", "completion.direct">>)
        /\ Executed("chart_tool") + Executed("rag_agent") + Executed("combine_results") = 0
        /\ Settled => callLog = <<"completion.classify", "completion.direct">>
        /\ (directOutcome # Null /\ ~directOutcome.raised) =>
              /\ finalResponse = [answer |-> directOutcome.value,
                                  references |-> EmptyObject,
                                  fileIds |-> <<>>, chartConfig |-> Null]
              /\ pc = "returned" => response = finalResponse

\* a direct run answered with a generated text
C16_Witness ==
    /\ DecisionIs(DirectToken)
    /\ pc = "returned"
    /\ directOutcome # Null
    /\ ~directOutcome.raised
    /\ response.answer = <<"D">>

\* the calls made by the two handlers, as they appear in callLog
ChartCalls == {"completion.extract", "chartTool.invoke"}

RagCalls == {"ragAgent.query", "graphql.nearText", "graphql.where", "data.getter",
             "completion.answer"}

\* every call of the set before precedes every call of the set after
Precedes(before, after) ==
    \A i, j \in 1..Len(callLog) :
        (callLog[i] \in before /\ callLog[j] \in after) => i < j

ClassifyRaised == classifyOutcome # Null /\ classifyOutcome.raised

DirectRaised == directOutcome # Null /\ directOutcome.raised

ExtractRaised == chartEnv # Null /\ chartEnv.ext.raised

SynthRaised == synthOutcome # Null /\ synthOutcome.raised

\* every tier directSearch consulted raised
SearchFailed == searchOutcome # Null /\ ~searchOutcome.success

\* an exception left the step that made the call, and with it the graph
Escaped == pc = "threw" \/ (pc = "returned" /\ finalResponse = Null)

\* C18 as stated: whenever the completion service or the retrieval service
\* raises during classification, extraction, retrieval, answer synthesis or
\* direct reply, the exception is caught inside that step, converted to a
\* success false outcome carrying the message, and never leaves the step.
C18_ContainedAtStep ==
    /\ (ClassifyRaised \/ DirectRaised \/ ExtractRaised \/ SearchFailed
          \/ AnswerCallRaised) => ~Escaped
    /\ ExtractRaised =>
          chartResult = [success |-> FALSE, error |-> chartEnv.ext.message]
    /\ AnswerCallRaised =>
          ~ragOutcome.success /\ ragOutcome.error = ragEnv.answer.message

\* C18 amended: a raising call in extraction or answer synthesis is caught in
\* its step and becomes a success false outcome carrying the message; when
\* every retrieval tier raises, directSearch returns success false with the
\* message and query returns the soft miss; a raising combined synthesis makes
\* combineResults write its fixed error response; a raising call in
\* classification or direct reply is not caught in the step: it leaves the
\* graph, no finalResponse is written and processQuery returns its fixed error
\* response; nothing else leaves a step.
C18_FailureContainment ==
    /\ ExtractRaised =>
          /\ chartResult = [success |-> FALSE, error |-> chartEnv.ext.message]
          /\ ~Escaped
    /\ AnswerCallRaised =>
          /\ ~ragOutcome.success
          /\ ragOutcome.error = ragEnv.answer.message
          /\ ~Escaped
    /\ SearchFailed =>
          /\ "error" \in DOMAIN searchOutcome
          /\ ragOutcome = [success |-> FALSE, answer |-> SoftMissText,
                           sources |-> <<>>]
          /\ ~Escaped
    /\ SynthRaised =>
          /\ finalResponse = CombineErrorResponse
          /\ ~Escaped
    /\ (ClassifyRaised \/ DirectRaised) <=> Escaped
    /\ (Escaped /\ pc = "returned") => response = ProcessQueryErrorResponse

\* the direct-reply call raised and processQuery answered with its error text
C18_Witness ==
    /\ DirectRaised
    /\ pc = "returned"
    /\ response = ProcessQueryErrorResponse
    /\ finalResponse = Null

\* the graph reached END
ReachedEnd == pc = "END" \/ (pc = "returned" /\ ~(ClassifyRaised \/ DirectRaised))

\* C19: finalResponse is non-null iff the graph has reached its terminal
\* state; it is written once, by direct reply or combination on the step into
\* END; and processQuery never returns the "No response generated." default.
C19_FinalResponseOnce ==
    /\ [](finalResponse # Null <=> ReachedEnd)
    /\ [](pc = "returned" => response # NoResponse)
    /\ [][finalResponse' # finalResponse =>
            /\ finalResponse = Null
            /\ pc \in {"direct_response", "combine_results"}
            /\ pc' = "END"]_vars

\* the catch block of combineResults wrote the response of a finished run
C19_Witness ==
    /\ pc = "returned"
    /\ SynthRaised
    /\ finalResponse = CombineErrorResponse
    /\ response = finalResponse

\* C20: within a run the query is set once at creation and never changes, and
\* the decision, once written by the classification step, is not written by
\* any later step.
C20_QueryAndDecisionFrozen ==
    [][/\ pc # "idle" => userQuery' = userQuery
       /\ decision' # decision => pc = "analyze_query" /\ decision = Null]_vars

\* a finished run that went through the later steps with its decision
C20_Witness ==
    /\ pc = "returned"
    /\ DecisionIs(BothToken)
    /\ Executed("chart_tool") = 1
    /\ Executed("combine_results") = 1
    /\ userQuery \in Queries

\* C21: the trace (channel messages) is append-only: across every step the
\* trace before the step is a prefix of the trace after it, so its length
\* never decreases and no entry is removed or reordered.
C21_TraceAppendOnly ==
    [][/\ IsPrefix(messages, messages')
       /\ Len(messages') >= Len(messages)]_vars

\* a finished run of three steps, each of which extended the trace
C21_Witness ==
    /\ pc = "returned"
    /\ Len(steps) = 3
    /\ Len(messages) > 3
    /\ messages[1] = Message("user", userQuery)

\* C26: the classification step appends exactly one entry "Decision:
\* <decision>" to the trace, each executed step adds exactly one entry, and
\* the user message occurs exactly once in the trace.
C26_OneEntryPerStep ==
    /\ decision # Null =>
          /\ Len(messages) >= 2
          /\ SubSeq(messages, 1, 2) =
                <<Message("user", userQuery),
                  Message("assistant", <<"Decision: ">> \o decision.chars)>>
    /\ pc # "idle" => Count(messages, Message("user", userQuery)) = 1
    /\ (pc # "idle" /\ ~ClassifyRaised /\ ~DirectRaised) =>
          Len(messages) = Len(steps) + 1

\* the nodes of the graph
Nodes == {"analyze_query", "chart_tool", "rag_agent", "direct_response",
          "combine_results"}

\* classification first, then one handler or the direct reply, then at most
\* the combination step after a handler; no node twice
StepsWellOrdered ==
    /\ Len(steps) <= 3
    /\ \A n \in Nodes : Executed(n) <= 1
    /\ Len(steps) >= 1 => steps[1] = "analyze_query"
    /\ Len(steps) >= 2 => steps[2] \in {"chart_tool", "rag_agent", "direct_response"}
    /\ Len(steps) = 3 => /\ steps[3] = "combine_results"
                         /\ steps[2] # "direct_response"

\* C23: every run terminates: each collaborator call settling, processQuery
\* eventually returns, after classification and at most two further graph
\* steps (a handler or the direct reply, then at most one combination step);
\* no step is executed twice.
C23_Terminates ==
    /\ <>(pc = "returned")
    /\ [](pc # "returned" => ENABLED <<Next>>_vars)
    /\ [][pc' \in Positions \ {pc}]_vars
    /\ [](StepsWellOrdered)
    /\ [](pc = "returned" => outcome = "returned" /\ Len(steps) >= 1)

\* a run that returned after the longest path through the graph
C23_Witness ==
    /\ pc = "returned"
    /\ steps = <<"analyze_query", "rag_agent", "combine_results">>

\* directSearch derived the keyword list: the similarity search raised
KeywordsDerived == ragEnv # Null /\ ragEnv.first.raised

\* C24: keyword extraction returns at most 3 tokens: the first 3 survivors,
\* in order, of lower-casing, replacing punctuation, splitting on whitespace
\* and dropping tokens of length <= 2 and stop words; every returned token has
\* length > 2, is no stop word and contains no whitespace; for "What is the
\* Capital of France?" the result is ["what", "capital", "france"].
C24_KeywordExtraction ==
    KeywordsDerived =>
        LET k == Keywords(userQuery)
        IN  /\ Len(k) <= MaxKeywords
            /\ \A i \in 1..Len(k) :
                  /\ Len(k[i]) > 2
                  /\ k[i] \notin StopWords
                  /\ \A j \in 1..Len(k[i]) : k[i][j] \notin Whitespace
            /\ userQuery = FranceQuery =>
                  k = << <<"w","h","a","t">>, <<"c","a","p","i","t","a","l">>,
                         <<"f","r","a","n","c","e">> >>

\* the decision is none of chart, rag, both
Unrecognised ==
    decision # Null /\ decision.chars \notin {ChartToken, RagToken, BothToken}

\* C25: a decision that is none of chart, rag, both sends the run to the
\* direct-reply step, and routing changes no field of the routing state: the
\* decision stays the text the classification step derived.
C25_UnrecognisedToDirect ==
    /\ [](Unrecognised =>
            /\ pc \in {"direct_response", "END", "threw", "returned"}
            /\ IsPrefix(steps, <<"analyze_query", "direct_response">>)
            /\ IsPrefix(callLog, <<"completion.classify", "completion.direct">>)
            /\ decision = JsString(Classify(classifyOutcome.value)))
    /\ [][pc = "analyze_query" =>
            /\ UNCHANGED <<userQuery, chartResult, ragResult, finalResponse>>
            /\ decision' # Null =>
                  /\ decision' = JsString(Classify(classifyOutcome'.value))
                  /\ pc' = RouteDecision(decision')]_vars

\* a run classified as "no" that went through the direct reply
C25_Witness ==
    /\ decision = JsString(<<"n","o">>)
    /\ pc = "returned"
    /\ steps = <<"analyze_query", "direct_response">>

\* an exception during chart generation: in ChartTool._call or in the call
GenerationRaised == chartEnv # Null /\ chartEnv.inv \in {"raises", "callRaises"}

\* C27 as stated: a visualization outcome with success false arises only from
\* an exception during chart generation; a failed extraction (the call raising
\* or its output unparsable) is replaced by the defaults and never yields a
\* success false outcome.
C27_FailureOnlyFromGeneration ==
    chartEnv # Null =>
        /\ ~chartResult.success => GenerationRaised
        /\ (ExtractRaised \/ ExtractionUnparsable) =>
              chartEnv.params = DefaultChartParams(userQuery)

\* C27 amended: a visualization outcome with success false arises exactly
\* from an exception in the step: the extraction call raising, in which case
\* the chart generator is not called and the outcome carries that message, or
\* chart generation raising; only an unparsable extraction output is replaced
\* by the defaults, and then the outcome is successful unless generation raises.
C27_ChartFailureCauses ==
    chartEnv # Null =>
        /\ ~chartResult.success <=> (ExtractRaised \/ GenerationRaised)
        /\ ExtractRaised =>
              /\ chartResult = [success |-> FALSE, error |-> chartEnv.ext.message]
              /\ chartEnv.inv = "notCalled"
              /\ Count(callLog, "chartTool.invoke") = 0
        /\ ExtractionUnparsable =>
              /\ chartEnv.params = DefaultChartParams(userQuery)
              /\ chartEnv.inv = "returns" => chartResult.success

\* the extraction call raised and the run ended with a failed chart outcome
C27_Witness ==
    /\ ExtractRaised
    /\ ~chartResult.success
    /\ pc = "returned"

SynthCalls == Count(callLog, "completion.synthesize")

\* C28: the combined-answer synthesis call is made iff the combination step
\* holds a successful visualization outcome and a successful retrieval
\* outcome; it is never made for decision chart or rag, and at most once.
C28_SynthesisIffBoth ==
    /\ SynthCalls <= 1
    /\ SynthCalls = 1 <=>
          (Executed("combine_results") = 1 /\ Ok(chartResult) /\ Ok(ragOutcome))
    /\ SynthCalls = 1 <=> synthOutcome # Null
    /\ (DecisionIs(ChartToken) \/ DecisionIs(RagToken)) => SynthCalls = 0

\* a finished run in which the synthesis call was made
C28_Witness ==
    /\ pc = "returned"
    /\ SynthCalls = 1
    /\ Ok(chartResult)
    /\ Ok(ragOutcome)

\* decisions that lead to the combination step
HandlerDecisions == {JsString(ChartToken), JsString(RagToken), JsString(BothToken)}

\* C29: for decision rag the Retrieval Handler executes exactly once and the
\* Visualization Handler never; for decision chart the Visualization Handler
\* executes exactly once and the combination step does not start the
\* Retrieval Handler; the combination step is entered only for decisions
\* chart, rag, both, and exactly once in each such run.
C29_SingleHandler ==
    /\ DecisionIs(RagToken) =>
          /\ Executed("chart_tool") = 0
          /\ Count(callLog, "chartTool.invoke") = 0
          /\ RagQueries = Executed("rag_agent")
          /\ ReachedEnd => Executed("rag_agent") = 1
    /\ DecisionIs(ChartToken) =>
          /\ Executed("rag_agent") = 0
          /\ RagQueries = 0
          /\ ReachedEnd => Executed("chart_tool") = 1
    /\ \A n \in {"chart_tool", "rag_agent", "combine_results"} : Executed(n) <= 1
    /\ Executed("combine_results") = 1 => decision \in HandlerDecisions
    /\ (ReachedEnd /\ decision \in HandlerDecisions) => Executed("combine_results") = 1

\* a finished rag run: one retrieval, one combination, no chart
C29_Witness ==
    /\ DecisionIs(RagToken)
    /\ pc = "returned"
    /\ Executed("rag_agent") = 1
    /\ Executed("combine_results") = 1
    /\ RagQueries = 1

\* C30 as stated: on success the source ids of RAGAgent.query are the
\* identifiers of the entries the fallback chain returned, one per entry in
\* the same order, and the final response's fileIds equal that sequence.
C30_SourceIdsInResponse ==
    Ok(ragOutcome) =>
        /\ Len(ragOutcome.sources) = Len(searchOutcome.results)
        /\ \A i \in 1..Len(searchOutcome.results) :
              ragOutcome.sources[i] = searchOutcome.results[i].fileId
        /\ finalResponse # Null => finalResponse.fileIds = ragOutcome.sources

\* the entries returned by the tier that served the search
ServedEntries ==
    IF ~ragEnv.first.raised THEN ragEnv.first.value
    ELSE IF Len(searchOutcome.log) = 2 THEN ragEnv.second.value
    ELSE ragEnv.last.value

\* C30 amended: on success the source ids of RAGAgent.query are the
\* identifiers of the entries the fallback chain returned, one per entry in
\* the same order; the final response's fileIds equal that sequence unless
\* the combined-synthesis call raised, in which case fileIds is [].
C30_SourceIdsUnlessCaught ==
    Ok(ragOutcome) =>
        /\ searchOutcome.results = ServedEntries
        /\ Len(ragOutcome.sources) = Len(searchOutcome.results)
        /\ \A i \in 1..Len(searchOutcome.results) :
              ragOutcome.sources[i] = searchOutcome.results[i].fileId
        /\ finalResponse # Null =>
              finalResponse.fileIds = IF SynthRaised THEN <<>> ELSE ragOutcome.sources

\* a successful retrieval of two entries, the second-listed id first
C30_Witness ==
    /\ Ok(ragOutcome)
    /\ pc = "returned"
    /\ searchOutcome.results = <<Entry("file2"), Entry("file1")>>
    /\ response.fileIds = <<"file2", "file1">>

\* a run from its creation on, alone, hearing the sequence h
RECURSIVE Alone(_)
Alone(h) ==
    IF h = <<>> THEN InitialRun
    ELSE StepOf(Alone(SubSeq(h, 1, Len(h) - 1)), h[Len(h)], TheAgent)

FetchCalls == Count(searchOutcome.log, "data.getter")

\* C31: within one directSearch call each tier is invoked at most once; when
\* the similarity search raises and the query has no keyword, the unrestricted
\* fetch is issued exactly once and its entries are the entries returned.
C31_TiersOnce ==
    searchOutcome # Null =>
        /\ \A t \in {"graphql.nearText", "graphql.where", "data.getter"} :
              Count(searchOutcome.log, t) <= 1
        /\ Tier2Skipped =>
              /\ FetchCalls = 1
              /\ ~ragEnv.second.raised =>
                    /\ searchOutcome.success
                    /\ searchOutcome.results = ragEnv.second.value

\* the two texts RAGAgent.query puts in an unsuccessful outcome
UnsuccessfulTexts == {SoftMissText, QueryErrorText}

\* C32: the text of an unsuccessful retrieval outcome never reaches the
\* caller: the answer of a final response is neither of the two texts, the
\* response processQuery returns carries the second only from its own catch,
\* and a rag run with an unsuccessful retrieval answers "I encountered an
\* error processing your request.".
C32_UnsuccessfulTextHidden ==
    /\ finalResponse # Null => finalResponse.answer \notin UnsuccessfulTexts
    /\ pc = "returned" =>
          /\ response.answer # SoftMissText
          /\ response.answer = QueryErrorText =>
                (response = ProcessQueryErrorResponse /\ Escaped /\ ragOutcome = Null)
    /\ (DecisionIs(RagToken) /\ finalResponse # Null /\ ~Ok(ragOutcome)) =>
          finalResponse.answer = CombineFallbackText

\* a rag run whose retrieval was unsuccessful, answered with the fixed text
C32_Witness ==
    /\ DecisionIs(RagToken)
    /\ pc = "returned"
    /\ ragOutcome # Null
    /\ ~ragOutcome.success
    /\ ragOutcome.answer \in UnsuccessfulTexts
    /\ response.answer = CombineFallbackText

\* references and fileIds of a response say the same
ReferencesAgree(r) ==
    \/ r.references = EmptyObject /\ r.fileIds = <<>>
    \/ r.references = [ragSources |-> r.fileIds]

\* C33: in every response processQuery returns, references is {} and fileIds
\* is [], or references is {ragSources: s} with s equal to fileIds; chartConfig
\* is non-null only in a response produced by the try block of combineResults.
C33_ResponseConsistent ==
    /\ finalResponse # Null => ReferencesAgree(finalResponse)
    /\ pc = "returned" =>
          /\ ReferencesAgree(response)
          /\ response.chartConfig # Null =>
                /\ Executed("combine_results") = 1
                /\ ~SynthRaised
                /\ Ok(chartResult)
                /\ response = CombineResponse(chartResult, ragOutcome,
                                              IF synthOutcome # Null
                                              THEN synthOutcome.value ELSE <<>>)

\* a returned response with a chart and with retrieval sources
C33_Witness ==
    /\ pc = "returned"
    /\ response.chartConfig # Null
    /\ response.fileIds # <<>>
    /\ response.references = [ragSources |-> response.fileIds]

----------------------------------------------------------------------------
(* The HTTP server and setupWeaviate, under ServerSpec *)

\* the requests of one kind received so far
RequestsOf(kind) == {i \in RequestIds : requests[i].kind = kind}

\* request i arrives in this step
Arrives(i) == requests[i].kind = "none" /\ requests'[i].kind # "none"

\* the handler of request i invoked processQuery
Invoked(i) == requests[i].served # NoAgent

Answers(i, code) ==
    requests[i].kind = "setup" /\ requests[i].status = 0 /\ requests'[i].status = code

\* C35: a /setup whose database setup raises is answered 500 and leaves the
\* agent reference as it was, undefined or the instance of an earlier
\* successful /setup, which goes on serving the queries that arrive; a /setup
\* that succeeds is answered 200 and assigns an instance never held before; and
\* the reference changes in no other step.
C35_SetupFrame ==
    /\ [][\A i \in RequestIds :
             /\ Answers(i, 500) => delegatingAgent' = delegatingAgent
             /\ Answers(i, 200) =>
                   (delegatingAgent' = instances' /\ delegatingAgent' \notin 0..instances)
             /\ (Arrives(i) /\ requests'[i].kind = "query" /\ ~Falsy(requests'[i].query)
                   /\ delegatingAgent # NoAgent) =>
                   requests'[i].served = delegatingAgent]_vars
    /\ [][delegatingAgent' # delegatingAgent =>
             \E i \in RequestIds : Answers(i, 200)]_vars
    /\ [](\A i \in RequestsOf("setup") :
             requests[i].pc = "done" => requests[i].status \in {200, 500})

\* a first /setup succeeded, a later one failed, and a query that arrived
\* after both was served by the instance of the first
C35_Witness ==
    \E i, j \in RequestsOf("setup") : \E q \in RequestsOf("query") :
        /\ i < j /\ j < q
        /\ requests[i].status = 200 /\ requests[j].status = 500
        /\ instances = 1 /\ delegatingAgent = 1
        /\ requests[q].served = 1 /\ requests[q].status = 200

\* the runs of setupWeaviate that have ended, and those that resolved
SetupsEnded == {i \in RequestsOf("setup") : requests[i].pc = "done"}

\* the runs of setupWeaviate that have inserted sample entry k: those that
\* resolved, and those whose insertion loop has gone past k
InsertedBy(k) ==
    {i \in RequestsOf("setup") : requests[i].status = 200 \/ requests[i].k > k}

\* the class is created at most once, and only by a run whose existence check
\* found no class
CreatedOnce ==
    /\ [](created <= 1 /\ (store.class <=> created = 1))
    /\ [][\A i \in RequestIds :
             (requests[i].pc = "schema.exists" /\ requests'[i].pc = "classCreator")
                 => ~store.class]_vars

\* whatever way tenant creation settles, the run goes on to the insertions
TenantNeverAborts ==
    [][\A i \in RequestIds :
          (requests[i].pc = "tenantsCreator" /\ requests'[i] # requests[i])
              => (requests'[i].pc = "creator" /\ requests'[i].status = 0)]_vars

\* C36 as stated: the class is created at most once, tenant creation never
\* aborts setup, and once the runs have ended the store holds as many copies of
\* each sample entry as runs have succeeded.
C36_CopiesPerRun ==
    /\ CreatedOnce
    /\ TenantNeverAborts
    /\ [](SetupsEnded = RequestsOf("setup") =>
             \A k \in Samples : store.copies[k] = Cardinality(SetupsOk))

\* C36 amended: the class is created at most once, tenant creation never
\* aborts setup, and the store holds one copy of a sample entry for every run
\* that inserted it, a run that failed during the insertions included: at
\* least as many copies as runs have succeeded, and exactly as many when no
\* run has failed after its first insertion.
C36_CopiesPerInsertion ==
    /\ CreatedOnce
    /\ TenantNeverAborts
    /\ [](\A k \in Samples :
             /\ store.copies[k] = Cardinality(InsertedBy(k))
             /\ store.copies[k] >= Cardinality(SetupsOk)
             /\ (\A i \in SetupsEnded \ SetupsOk : requests[i].k <= 1) =>
                   (SetupsEnded = RequestsOf("setup") =>
                       store.copies[k] = Cardinality(SetupsOk)))

\* two runs have succeeded, the second without creating the class and both
\* after a failed tenant creation, and the store holds two copies of each entry
C36_Witness ==
    /\ Cardinality(SetupsOk) = 2
    /\ created = 1 /\ ~store.tenant
    /\ \A k \in Samples : store.copies[k] = 2
====
